---- MODULE Spec2Model ----
(***************************************************************************)
(* Model of getAPI (src/lib/get.ts): one outbound fetch against the fixed  *)
(* upstream base URL with the two identification headers and a cache       *)
(* hint, a status check, a JSON parse of the body and one outer catch      *)
(* that wraps every error.  A call is suspended at its two awaits (fetch,  *)
(* res.json()); the code between two awaits runs as one step.              *)
(***************************************************************************)
EXTENDS Integers, Sequences, FiniteSets, TLC

\* ---------------------------------------------------------------- bounds
NumCalls == 2
MaxBodyLen == 3
TickMs == 5000
MaxElapsedMs == 15000

\* ------------------------------------------------------ program constants
BaseUrl == "https://api.helldivers2.dev/api"
FixedRevalidate == 3600
DocDefaultRevalidate == 3600
DocDefaultTimeout == 10000

\* --------------------------------------------------------------- inputs
Calls == 1 .. NumCalls
SoloCalls == {c \in Calls : \A d \in Calls : c <= d}

Absent == [given |-> FALSE, value |-> 0]
Given(v) == [given |-> TRUE, value |-> v]
Paths == {"/v1/war", "/v1/campaigns?page=2"}
RevalidateOpts == {Absent, Given(1800)}
TimeoutOpts == {Absent, Given(5000)}
Args == [url : Paths, revalidate : RevalidateOpts, timeout : TimeoutOpts]
ConcArgs == {a \in Args : a.revalidate = Absent /\ a.timeout = Absent}

Statuses == {200, 204, 404, 503}
ConcStatuses == {200, 503}
NetworkFailures == {"ENOTFOUND", "ECONNREFUSED"}

Chars == {"[", "]", "1", " "}
RECURSIVE TextsOfLen(_)
TextsOfLen(n) ==
    IF n = 0 THEN {<<>>}
    ELSE {Append(t, ch) : t \in TextsOfLen(n - 1), ch \in Chars}
Bodies == UNION {TextsOfLen(n) : n \in 0 .. MaxBodyLen}
ConcBodies == {<<"1">>, <<"[", "]">>, <<"[">>}

ConfigValues == {"companion", "ops@example.org"}
Configs == {[x_super |-> [client |-> cl, contact |-> co]] :
                cl \in ConfigValues, co \in ConfigValues}

\* ------------------------------------------------------------ JSON values
NoValue == [type |-> "none", num |-> 0, items |-> <<>>]
JNum(n) == [type |-> "number", num |-> n, items |-> <<>>]
JArr(s) == [type |-> "array", num |-> 0, items |-> s]

NoError == [name |-> "none", message |-> ""]
MkError(name, message) == [name |-> name, message |-> message]

RECURSIVE SkipWs(_, _)
SkipWs(s, i) ==
    IF i <= Len(s) /\ s[i] = " " THEN SkipWs(s, i + 1) ELSE i

RECURSIVE DigitsEnd(_, _)
DigitsEnd(s, i) ==
    IF i <= Len(s) /\ s[i] = "1" THEN DigitsEnd(s, i + 1) ELSE i

RECURSIVE Ones(_)
Ones(n) == IF n = 0 THEN 0 ELSE 10 * Ones(n - 1) + 1

ParseFail == [ok |-> FALSE, value |-> NoValue, pos |-> 0]

RECURSIVE ParseValue(_, _)
ParseValue(s, i) ==
    IF i > Len(s) THEN ParseFail
    ELSE IF s[i] = "1"
    THEN LET j == DigitsEnd(s, i)
         IN  [ok |-> TRUE, value |-> JNum(Ones(j - i)), pos |-> j]
    ELSE IF s[i] = "["
    THEN LET j == SkipWs(s, i + 1)
         IN  IF j <= Len(s) /\ s[j] = "]"
             THEN [ok |-> TRUE, value |-> JArr(<<>>), pos |-> j + 1]
             ELSE LET r == ParseValue(s, j)
                      k == SkipWs(s, r.pos)
                  IN  IF r.ok /\ k <= Len(s) /\ s[k] = "]"
                      THEN [ok |-> TRUE, value |-> JArr(<<r.value>>), pos |-> k + 1]
                      ELSE ParseFail
    ELSE ParseFail

JSONParse(s) ==
    LET r == ParseValue(s, SkipWs(s, 1))
    IN  IF r.ok /\ SkipWs(s, r.pos) = Len(s) + 1
        THEN [ok |-> TRUE, value |-> r.value]
        ELSE [ok |-> FALSE, value |-> NoValue]

IsValidJSON(s) == JSONParse(s).ok

\* -------------------------------------------------------------- getAPI
ErrString(e) == e.name \o ": " \o e.message

ResOk_lax(status) == status >= 200 /\ status <= 499

ResOk(status) == status >= 200 /\ status <= 299

StatusError(status) ==
    MkError("Error", "Failed to fetch data: " \o ToString(status))

CatchWrap(e) == MkError("Error", "API Error: " \o ErrString(e))

SyntaxError == MkError("SyntaxError", "Unexpected token in JSON")
FetchFailed == MkError("TypeError", "fetch failed")

VARIABLES siteConfig, pc, args, requests, inflight, elapsed, res, result, error

vars == <<siteConfig, pc, args, requests, inflight, elapsed, res, result, error>>

NoArgs == [url |-> "", revalidate |-> Absent, timeout |-> Absent]
NoRes == [status |-> 0, body |-> <<>>]

BuildRequest_swapped(a) ==
    [method |-> "GET",
     url |-> BaseUrl \o a.url,
     hasBody |-> FALSE,
     next |-> [revalidate |-> FixedRevalidate],
     headers |-> ("X-Super-Client" :> siteConfig.x_super.contact) @@
                 ("X-Super-Contact" :> siteConfig.x_super.client)]

BuildRequest_slash(a) ==
    [method |-> "GET",
     url |-> BaseUrl \o "/" \o a.url,
     hasBody |-> FALSE,
     next |-> [revalidate |-> FixedRevalidate],
     headers |-> ("X-Super-Client" :> siteConfig.x_super.client) @@
                 ("X-Super-Contact" :> siteConfig.x_super.contact)]

BuildRequest(a) ==
    [method |-> "GET",
     url |-> BaseUrl \o a.url,
     hasBody |-> FALSE,
     next |-> [revalidate |-> FixedRevalidate],
     headers |-> ("X-Super-Client" :> siteConfig.x_super.client) @@
                 ("X-Super-Contact" :> siteConfig.x_super.contact)]

Init ==
    /\ siteConfig \in Configs
    /\ pc = [c \in Calls |-> "idle"]
    /\ args = [c \in Calls |-> NoArgs]
    /\ requests = [c \in Calls |-> <<>>]
    /\ inflight = [c \in Calls |-> FALSE]
    /\ elapsed = [c \in Calls |-> 0]
    /\ res = [c \in Calls |-> NoRes]
    /\ result = [c \in Calls |-> NoValue]
    /\ error = [c \in Calls |-> NoError]

Throw_shared(c, inner) ==
    /\ pc' = [d \in Calls |->
                IF d = c \/ pc[d] \in {"awaitFetch", "awaitJson"}
                THEN "thrown" ELSE pc[d]]
    /\ error' = [d \in Calls |->
                   IF d = c \/ pc[d] \in {"awaitFetch", "awaitJson"}
                   THEN CatchWrap(inner) ELSE error[d]]
    /\ result' = result

Throw_rethrow(c, inner) ==
    /\ pc' = [pc EXCEPT ![c] = "thrown"]
    /\ error' = [error EXCEPT ![c] = inner]
    /\ result' = result

Throw(c, inner) ==
    /\ pc' = [pc EXCEPT ![c] = "thrown"]
    /\ error' = [error EXCEPT ![c] = CatchWrap(inner)]
    /\ result' = result

Call(c, a) ==
    /\ pc[c] = "idle"
    /\ args' = [args EXCEPT ![c] = a]
    /\ requests' = [requests EXCEPT ![c] = Append(@, BuildRequest(a))]
    /\ inflight' = [inflight EXCEPT ![c] = TRUE]
    /\ pc' = [pc EXCEPT ![c] = "awaitFetch"]
    /\ UNCHANGED <<siteConfig, elapsed, res, result, error>>

FetchResolve_parseFirst(c, status, body) ==
    /\ pc[c] = "awaitFetch"
    /\ inflight[c]
    /\ inflight' = [inflight EXCEPT ![c] = FALSE]
    /\ res' = [res EXCEPT ![c] = [status |-> status, body |-> body]]
    /\ pc' = [pc EXCEPT ![c] = "awaitJson"]
    /\ UNCHANGED <<siteConfig, args, requests, elapsed, result, error>>

FetchResolve(c, status, body) ==
    /\ pc[c] = "awaitFetch"
    /\ inflight[c]
    /\ inflight' = [inflight EXCEPT ![c] = FALSE]
    /\ res' = [res EXCEPT ![c] = [status |-> status, body |-> body]]
    /\ IF ~ResOk(status)
       THEN Throw(c, StatusError(status))
       ELSE /\ pc' = [pc EXCEPT ![c] = "awaitJson"]
            /\ UNCHANGED <<result, error>>
    /\ UNCHANGED <<siteConfig, args, requests, elapsed>>

FetchReject_retry(c, cause) ==
    /\ pc[c] = "awaitFetch"
    /\ inflight[c]
    /\ cause \in NetworkFailures
    /\ Len(requests[c]) < 2
    /\ requests' = [requests EXCEPT ![c] = Append(@, BuildRequest(args[c]))]
    /\ UNCHANGED <<siteConfig, pc, args, inflight, elapsed, res, result, error>>

FetchReject(c, cause) ==
    /\ pc[c] = "awaitFetch"
    /\ inflight[c]
    /\ cause \in NetworkFailures
    /\ inflight' = [inflight EXCEPT ![c] = FALSE]
    /\ Throw(c, FetchFailed)
    /\ UNCHANGED <<siteConfig, args, requests, elapsed, res>>

JsonResolve_wrapped(c) ==
    /\ pc[c] = "awaitJson"
    /\ JSONParse(res[c].body).ok
    /\ pc' = [pc EXCEPT ![c] = "returned"]
    /\ result' = [result EXCEPT ![c] = JArr(<<JSONParse(res[c].body).value>>)]
    /\ UNCHANGED <<siteConfig, args, requests, inflight, elapsed, res, error>>

JsonResolve(c) ==
    /\ pc[c] = "awaitJson"
    /\ JSONParse(res[c].body).ok
    /\ pc' = [pc EXCEPT ![c] = "returned"]
    /\ result' = [result EXCEPT ![c] = JSONParse(res[c].body).value]
    /\ UNCHANGED <<siteConfig, args, requests, inflight, elapsed, res, error>>

JsonReject_swallow(c) ==
    /\ pc[c] = "awaitJson"
    /\ ~JSONParse(res[c].body).ok
    /\ pc' = [pc EXCEPT ![c] = "returned"]
    /\ UNCHANGED <<siteConfig, args, requests, inflight, elapsed, res, result, error>>

JsonReject(c) ==
    /\ pc[c] = "awaitJson"
    /\ ~JSONParse(res[c].body).ok
    /\ Throw(c, SyntaxError)
    /\ UNCHANGED <<siteConfig, args, requests, inflight, elapsed, res>>

Tick(c) ==
    /\ inflight[c]
    /\ elapsed[c] < MaxElapsedMs
    /\ elapsed' = [elapsed EXCEPT ![c] = @ + TickMs]
    /\ UNCHANGED <<siteConfig, pc, args, requests, inflight, res, result, error>>

Next ==
    \/ \E c \in SoloCalls, a \in Args : Call(c, a)
    \/ \E c \in SoloCalls, status \in Statuses, body \in Bodies : FetchResolve(c, status, body)
    \/ \E c \in SoloCalls, cause \in NetworkFailures : FetchReject(c, cause)
    \/ \E c \in SoloCalls : JsonResolve(c)
    \/ \E c \in SoloCalls : JsonReject(c)
    \/ \E c \in SoloCalls : Tick(c)

Spec == Init /\ [][Next]_vars

NextConc ==
    \/ \E c \in Calls, a \in ConcArgs : Call(c, a)
    \/ \E c \in Calls, status \in ConcStatuses, body \in ConcBodies : FetchResolve(c, status, body)
    \/ \E c \in Calls, cause \in NetworkFailures : FetchReject(c, cause)
    \/ \E c \in Calls : JsonResolve(c)
    \/ \E c \in Calls : JsonReject(c)
    \/ \E c \in Calls : elapsed[c] < TickMs /\ Tick(c)

SpecConc == Init /\ [][NextConc]_vars

\* ------------------------------------------------------------ properties
\* C1: whenever the upstream has answered a call with a 2xx status and a
\* body that parses as JSON, the call does not fail, and once it has
\* completed its returned value is exactly the parsed body and no error is set.
C1_SuccessReturnsParsedBody ==
    \A c \in Calls :
        (/\ res[c] # NoRes
         /\ res[c].status \in 200 .. 299
         /\ ParseValue(res[c].body, SkipWs(res[c].body, 1)).ok
         /\ SkipWs(res[c].body, ParseValue(res[c].body, SkipWs(res[c].body, 1)).pos)
                = Len(res[c].body) + 1)
        => /\ pc[c] \in {"awaitJson", "returned"}
           /\ error[c] = NoError
           /\ pc[c] = "returned" =>
                result[c] = ParseValue(res[c].body, SkipWs(res[c].body, 1)).value

C1_Witness ==
    \E c \in Calls :
        /\ pc[c] = "returned"
        /\ res[c] = [status |-> 200, body |-> <<" ", "[", "]">>]
        /\ result[c] = JArr(<<>>)

\* C2: whenever the upstream has answered a call with a status outside
\* 200..299, the call has failed with the wrapped Error and holds no
\* returned value.
C2_NonOkStatusFails ==
    \A c \in Calls :
        (res[c] # NoRes /\ res[c].status \notin 200 .. 299)
        => /\ pc[c] = "thrown"
           /\ error[c].name = "Error"
           /\ result[c] = NoValue

C2_Witness ==
    \E c \in Calls :
        /\ res[c].status = 404
        /\ res[c].body = <<"[", "1", "]">>
        /\ pc[c] = "thrown"

\* C3: a finished call whose upstream answer had a 2xx status and a body
\* that is not valid JSON has failed with the wrapped Error and holds no
\* returned value; such a call never reaches the returned state.
C3_UnparseableBodyFails ==
    \A c \in Calls :
        (/\ res[c] # NoRes
         /\ res[c].status \in 200 .. 299
         /\ ~IsValidJSON(res[c].body))
        => /\ pc[c] \in {"awaitJson", "thrown"}
           /\ result[c] = NoValue
           /\ pc[c] = "thrown" => error[c].name = "Error"

C3_Witness ==
    \E c \in Calls :
        /\ res[c] = [status |-> 200, body |-> <<"[", "1">>]
        /\ pc[c] = "thrown"
        /\ error[c] = CatchWrap(SyntaxError)

\* C4: once the upstream has been silent for longer than the call's timeout
\* (the caller's, or 10000 ms by default), the call is no longer pending on
\* the fetch: it has failed.
C4_TimeoutFailsCall ==
    \A c \in Calls :
        (elapsed[c] > (IF args[c].timeout.given THEN args[c].timeout.value
                       ELSE DocDefaultTimeout)
         /\ res[c] = NoRes /\ pc[c] # "idle")
        => pc[c] = "thrown"

\* C5: once the timeout of a call has elapsed, no request of that call is
\* still in flight.
C5_TimeoutAbortsRequest ==
    \A c \in Calls :
        elapsed[c] > (IF args[c].timeout.given THEN args[c].timeout.value
                      ELSE DocDefaultTimeout)
        => ~inflight[c]

\* C6: every request a call has issued carries exactly the two headers
\* X-Super-Client and X-Super-Contact, holding the values of the
\* process-wide configuration, for every path and every option set.
C6_IdentificationHeaders ==
    \A c \in Calls : \A i \in DOMAIN requests[c] :
        /\ DOMAIN requests[c][i].headers = {"X-Super-Client", "X-Super-Contact"}
        /\ requests[c][i].headers["X-Super-Client"] = siteConfig.x_super.client
        /\ requests[c][i].headers["X-Super-Contact"] = siteConfig.x_super.contact

C6_Witness ==
    \E c \in Calls :
        /\ Len(requests[c]) = 1
        /\ args[c].revalidate.given
        /\ args[c].timeout.given
        /\ siteConfig.x_super.client # siteConfig.x_super.contact

C8_RevalidateFromCaller ==
    \A c \in Calls : \A i \in DOMAIN requests[c] :
        requests[c][i].next.revalidate =
            (IF args[c].revalidate.given THEN args[c].revalidate.value
             ELSE DocDefaultRevalidate)

\* C9: a call on which a failure trigger occurred (status outside 200..299,
\* unparseable body, upstream silent past the timeout, network failure)
\* never ends in a return, and every failed call carries the one error kind
\* with a non-empty message.
C9_EveryTriggerSurfaces ==
    \A c \in Calls :
        /\ ((\/ (res[c] # NoRes /\ res[c].status \notin 200 .. 299)
             \/ (res[c] # NoRes /\ ~IsValidJSON(res[c].body))
             \/ elapsed[c] > (IF args[c].timeout.given THEN args[c].timeout.value
                              ELSE DocDefaultTimeout))
            => pc[c] # "returned")
        /\ pc[c] = "thrown" => (error[c].name = "Error" /\ error[c].message # "")

\* C10: with calls running concurrently, two finished calls that were given
\* the same path and received the same upstream outcome have the same
\* result; and a step of one call leaves the position, response, result and
\* error of every other call untouched.
C10_CallsIndependent ==
    /\ [](\A c, d \in Calls :
            (/\ pc[c] \in {"returned", "thrown"}
             /\ pc[d] \in {"returned", "thrown"}
             /\ args[c].url = args[d].url
             /\ res[c] = res[d])
            => (pc[c] = pc[d] /\ result[c] = result[d] /\ error[c] = error[d]))
    /\ [][\A c, d \in Calls :
            (c # d /\ <<pc[c], res[c], requests[c]>>' # <<pc[c], res[c], requests[c]>>)
            => <<pc[d], res[d], result[d], error[d], requests[d]>>'
                 = <<pc[d], res[d], result[d], error[d], requests[d]>>]_vars

C10_Witness ==
    \E c, d \in Calls :
        /\ c < d
        /\ pc[c] = "awaitFetch"
        /\ pc[d] = "thrown"
        /\ res[d].status = 503
\* C11: every request a call has issued targets the fixed base URL
\* https://api.helldivers2.dev/api followed by exactly the path the caller
\* supplied (a query string in the path included), with method GET and no
\* request body.
C11_TargetIsBasePlusPath ==
    \A c \in Calls : \A i \in DOMAIN requests[c] :
        /\ requests[c][i].url = "https://api.helldivers2.dev/api" \o args[c].url
        /\ requests[c][i].method = "GET"
        /\ ~requests[c][i].hasBody

C11_Witness ==
    \E c \in Calls :
        /\ Len(requests[c]) = 1
        /\ args[c].url = "/v1/campaigns?page=2"
        /\ requests[c][1].url = "https://api.helldivers2.dev/api/v1/campaigns?page=2"
\* C12: the status is checked before the body is parsed.  A call whose
\* response has a status outside 200..299 is never waiting on, nor finished
\* by, the JSON parse: it has failed with the status error whether or not
\* its body is valid JSON.  A call that is in, or has come out of, the parse
\* step (pending on it, returned, or failed with the parse error) has a
\* response with a status in 200..299.
C12_StatusCheckedBeforeParse ==
    \A c \in Calls :
        /\ (res[c] # NoRes /\ res[c].status \notin 200 .. 299)
           => /\ pc[c] \notin {"awaitJson", "returned"}
              /\ error[c].message =
                    "API Error: Error: Failed to fetch data: " \o ToString(res[c].status)
        /\ (\/ pc[c] \in {"awaitJson", "returned"}
            \/ error[c].message = "API Error: SyntaxError: Unexpected token in JSON")
           => (res[c] # NoRes /\ res[c].status \in 200 .. 299)

C12_Witness ==
    \E c \in Calls :
        /\ res[c] = [status |-> 503, body |-> <<"[", "1", "]">>]
        /\ pc[c] = "thrown"
        /\ error[c].message = "API Error: Error: Failed to fetch data: 503"
\* C13: the error of every failed call is the one built by the outer catch:
\* an Error whose message is "API Error: " followed by the text of the error
\* caught.  After a response with a status outside 200..299 that text is
\* "Error: Failed to fetch data: <status>", so the status code is still in
\* the surfaced message; the error caught (status error, parse error,
\* network error) is never itself the error of the call.
C13_ErrorsAreWrapped ==
    \A c \in Calls :
        pc[c] = "thrown" =>
            /\ error[c].name = "Error"
            /\ \E text \in {"Error: Failed to fetch data: " \o ToString(n) : n \in 100 .. 599}
                           \cup {"SyntaxError: Unexpected token in JSON",
                                 "TypeError: fetch failed"} :
                    error[c].message = "API Error: " \o text
            /\ (res[c] # NoRes /\ res[c].status \notin 200 .. 299) =>
                    error[c].message =
                        "API Error: " \o "Error: " \o "Failed to fetch data: "
                            \o ToString(res[c].status)
            /\ error[c] \notin {[name |-> "Error",
                                 message |-> "Failed to fetch data: " \o ToString(n)] :
                                    n \in 100 .. 599}
            /\ error[c] # [name |-> "SyntaxError", message |-> "Unexpected token in JSON"]
            /\ error[c] # [name |-> "TypeError", message |-> "fetch failed"]

C13_Witness ==
    \E c \in Calls :
        /\ pc[c] = "thrown"
        /\ res[c].status = 404
        /\ error[c] = [name |-> "Error",
                       message |-> "API Error: Error: Failed to fetch data: 404"]
====
